---- MODULE Spec2Model ----
(***************************************************************************)
(* Model of the two crawl-and-extract pipelines of Scraper-Tools:          *)
(*   - the thin template  (Selenium + numeric pager)  scraper.py           *)
(*   - the ICE facility scraper                         scraper.py         *)
(* The crawl loop (scrape_all) is a state machine over the renderer's      *)
(* answers; _set_page and _extract_with_specs are pure operators.          *)
(***************************************************************************)
EXTENDS Integers, Sequences, FiniteSets, TLC

\* ------------------------------------------------------------- bounds
NumUrls == 3        \* detail URLs a site may expose, named 1..NumUrls in lexical order
MaxPages == 3       \* largest max_pages tried
MaxStart == 2       \* largest page_start tried
MaxLimit == 2       \* largest --limit tried
MaxSpecs == 2       \* longest strategy list of a field
MaxFields == 2      \* most fields configured for a detail page
MaxAnchors == 2     \* most anchors on a listing page handed to the link collector

URLS == 1..NumUrls

VARIABLES
    prog,        \* "template" | "ice": which scraper.py runs
    limit,       \* <<>> for None, <<n>> for --limit n
    max_pages,   \* max_pages argument
    page_start,  \* page_start argument (the ICE loop has none: 0)
    start_url,   \* template: start_url argument; ICE: drv.current_url after the start visit
    page_param,  \* template: page_param argument; ICE: the literal "page"
    site,        \* the site's listing pages when they are fixed beforehand (else chosen as fetched)
    faults,      \* the fetches that raise when they are fixed beforehand (else chosen as fetched)
    ref,         \* what the template's run did, kept while the ICE run is made on the same site
    pc,          \* position in scrape_all
    driver,      \* "none" | "open" | "quit"
    page_idx,    \* local page_idx
    links,       \* local links (sorted list) of the listing page being processed
    li,          \* position of the for loop in links
    seen,        \* local seen
    rows,        \* local rows; a row is identified by the URL it was scraped from
    exc,         \* exception in flight out of the try body ("none" when there is none)
    result,      \* "running" | "returned" | "raised": how scrape_all ended
    list_url,    \* the last list_url handed to driver.get
    n_list,      \* number of listing pages fetched (driver.get(list_url) calls)
    fetched,     \* URL -> number of detail fetches (scrape_detail / extract_facility_page calls)
    failed,      \* URLs reported by the [WARN] Error scraping line
    listed,      \* URL -> number of collect_links results it appeared in
    found,       \* argument of the last "Found N links." line, -1 before the first
    trace,       \* the run's fetches in order (kept when the faults are fixed beforehand)
    gap,         \* "none" before the first detail fetch; then "due" until a time.sleep returns, "slept" after
    x_body,      \* field extractor: outcome of reading body text
    x_specs,     \* field extractor: the strategy list with the page's answer to each
    x_out,       \* field extractor: outcome of _extract_with_specs, "idle" before the call
    d_fields,    \* detail scraper: the fields argument, a list of [name, specs] in dict order
    d_pc,        \* detail scraper: position in scrape_detail / extract_facility_page
    d_wait,      \* detail scraper: how the wait for <body> ended ("none" before it)
    d_i,         \* detail scraper: position of `for field_name, spec_list in fields.items()`
    d_data,      \* detail scraper: local data, field name -> string
    k_page,      \* link collector: the anchors of the listing page
    k_out        \* link collector: the lists returned by the calls made so far

cfg == <<prog, limit, max_pages, page_start, start_url, page_param, site, faults, ref>>
cvars == <<pc, driver, page_idx, links, li, seen, rows, exc, result, list_url,
           n_list, fetched, failed, listed, found, trace, gap>>
xvars == <<x_body, x_specs, x_out>>
dvars == <<d_fields, d_pc, d_wait, d_i, d_data>>
kvars == <<k_page, k_out>>
vars == <<cfg, cvars, xvars, dvars, kvars>>

\* ------------------------------------------------------------- URLs
\* A URL is [head, query]: head is scheme, netloc, path and params (passed
\* through untouched by urlparse/urlunparse), query is the list of key=value
\* pairs in the order they are written.  A dict is a list of <<key, values>>
\* in insertion order.

Digit(d) ==
    CASE d = 0 -> "0" [] d = 1 -> "1" [] d = 2 -> "2" [] d = 3 -> "3" [] d = 4 -> "4"
      [] d = 5 -> "5" [] d = 6 -> "6" [] d = 7 -> "7" [] d = 8 -> "8" [] d = 9 -> "9"

RECURSIVE Str(_)
\* str(page_num) for an int
Str(n) ==
    IF n < 0 THEN "-" \o Str(-n)
    ELSE IF n < 10 THEN Digit(n)
    ELSE Str(n \div 10) \o Digit(n % 10)

HasKey(d, k) == \E i \in 1..Len(d) : d[i][1] = k

\* q[k].append(v), creating the entry at the end when k is new
DictAppend(d, k, v) ==
    IF HasKey(d, k)
    THEN [i \in 1..Len(d) |-> IF d[i][1] = k THEN <<k, Append(d[i][2], v)>> ELSE d[i]]
    ELSE Append(d, <<k, <<v>>>>)

RECURSIVE parse_qs(_)
\* urllib.parse.parse_qs with keep_blank_values=False: blank values are dropped
parse_qs(query) ==
    IF query = <<>> THEN <<>>
    ELSE LET n == Len(query)
             d == parse_qs(SubSeq(query, 1, n - 1))
         IN IF query[n][2] = "" THEN d ELSE DictAppend(d, query[n][1], query[n][2])

\* q.pop(k, None)
DictPop(d, k) == SelectSeq(d, LAMBDA e : e[1] # k)

\* q[k] = vs: an existing key keeps its place, a new one goes last
DictSet(d, k, vs) ==
    IF HasKey(d, k)
    THEN [i \in 1..Len(d) |-> IF d[i][1] = k THEN <<k, vs>> ELSE d[i]]
    ELSE Append(d, <<k, vs>>)

RECURSIVE urlencode(_)
\* urllib.parse.urlencode(q, doseq=True): one key=value pair per value
urlencode(d) ==
    IF d = <<>> THEN <<>>
    ELSE LET k == d[1][1]
             vs == d[1][2]
         IN [i \in 1..Len(vs) |-> <<k, vs[i]>>] \o urlencode(Tail(d))

\* page_num is <<>> for None, <<n>> for the int n
_set_page(url, param, page_num) ==
    LET q == parse_qs(url.query)
        q2 == IF page_num = <<>> THEN DictPop(q, param)
              ELSE DictSet(q, param, <<Str(page_num[1])>>)
    IN [head |-> url.head, query |-> urlencode(q2)]

\* the ICE scraper's copy of _set_page, with the parameter name fixed
_set_or_remove_page(url, page_num) == _set_page(url, "page", page_num)

\* the values the query of url gives to key k, in order
ParamValues(url, k) ==
    LET hits == SelectSeq(url.query, LAMBDA e : e[1] = k)
    IN [i \in 1..Len(hits) |-> hits[i][2]]

\* ------------------------------------------------------------- field extractor
\* A text is a list of characters.  What the renderer (or re) answers is
\* [k, v]: k says what happened, v is the text when there is one.
Ans(k, v) == [k |-> k, v |-> v]

\* \s of re
IsSpace(c) == c \in {" ", "\n", "\t"}

RECURSIVE lstrip(_)
lstrip(s) == IF s # <<>> /\ IsSpace(Head(s)) THEN lstrip(Tail(s)) ELSE s

RECURSIVE rstrip(_)
rstrip(s) ==
    IF s # <<>> /\ IsSpace(s[Len(s)]) THEN rstrip(SubSeq(s, 1, Len(s) - 1)) ELSE s

RECURSIVE collapse(_)
\* re.sub(r"\s+", " ", s)
collapse(s) ==
    IF s = <<>> THEN <<>>
    ELSE IF IsSpace(Head(s)) THEN <<" ">> \o collapse(lstrip(s))
    ELSE <<Head(s)>> \o collapse(Tail(s))

\* re.sub(r"\s+", " ", (s or "").strip())
_normalize_space(s) == collapse(rstrip(lstrip(s)))

\* re.search(pat, text) for a pattern that is a literal: the leftmost occurrence
re_search(pat, text) ==
    IF \E i \in 1..(Len(text) - Len(pat) + 1) : SubSeq(text, i, i + Len(pat) - 1) = pat
    THEN Ans("match", pat)
    ELSE Ans("none", <<>>)

\* text = ""; try: text = driver.find_element(By.TAG_NAME, "body").text; except Exception: pass
BodyText(body) == IF body.k = "text" THEN body.v ELSE <<>>

RECURSIVE ExtractFrom(_, _, _)
\* the for loop of _extract_with_specs from spec number i on
ExtractFrom(specs, i, text) ==
    IF i > Len(specs) THEN Ans("return", <<>>)
    ELSE LET spec == specs[i]
             a == spec.ans
         IN CASE spec.kind = "css" ->
                  IF a.k = "missing" THEN ExtractFrom(specs, i + 1, text)
                  ELSE IF a.k = "error" THEN Ans("raise", <<>>)
                  ELSE LET val == _normalize_space(a.v)
                       IN IF val # <<>> THEN Ans("return", val)
                          ELSE ExtractFrom(specs, i + 1, text)
              [] spec.kind = "css_attr" ->
                  IF a.k = "missing" THEN ExtractFrom(specs, i + 1, text)
                  ELSE IF a.k = "error" THEN Ans("raise", <<>>)
                  ELSE LET val == _normalize_space(IF a.k = "null" THEN <<>> ELSE a.v)
                       IN IF val # <<>> THEN Ans("return", val)
                          ELSE ExtractFrom(specs, i + 1, text)
              [] spec.kind = "regex" ->
                  LET m == re_search(spec.pat, text)
                  IN IF m.k = "match" THEN Ans("return", _normalize_space(m.v))
                     ELSE ExtractFrom(specs, i + 1, text)

_extract_with_specs(body, specs) == ExtractFrom(specs, 1, BodyText(body))

\* raw texts a page may show: empty, blank, plain, padded, with inner runs of space
Texts ==
    { <<>>, <<" ">>, <<"a">>, <<" ", "a", "\n">>, <<"a", " ", "\t", "b">> }

\* literal patterns, among them a blank one
Patterns == { <<" ">>, <<"a">>, <<"b">> }

\* what the page answers to driver.find_element(...).text
ElementAnswers ==
    {Ans("missing", <<>>), Ans("error", <<>>)} \cup {Ans("text", t) : t \in Texts}

\* what the page answers to driver.find_element(...).get_attribute(attr)
AttributeAnswers == ElementAnswers \cup {Ans("null", <<>>)}

\* one strategy of a field, with the page's answer to its query.  A strategy has
\* one of the keys css, css_attr, regex, as in CONFIG["FIELDS"].
Strategies ==
    {[kind |-> "css", ans |-> a, pat |-> <<>>] : a \in ElementAnswers}
    \cup {[kind |-> "css_attr", ans |-> a, pat |-> <<>>] : a \in AttributeAnswers}
    \cup {[kind |-> "regex", ans |-> Ans("none", <<>>), pat |-> p] : p \in Patterns}

SpecLists == UNION {[1..n -> Strategies] : n \in 0..MaxSpecs}

Bodies == {Ans("error", <<>>)} \cup {Ans("text", t) : t \in Texts}

\* ------------------------------------------------------------- crawl loop
RECURSIVE sorted(_)
\* sorted(links): the set as an ascending list
sorted(S) ==
    IF S = {} THEN <<>>
    ELSE LET m == CHOOSE x \in S : \A y \in S : x <= y
         IN <<m>> \o sorted(S \ {m})

Range(s) == {s[i] : i \in 1..Len(s)}

\* CONFIG["NUMERIC_PAGE_PARAM"]; the ICE scraper has the name built in
ConfigPageParam == "page"

\* CONFIG["START_URL"] / START_URL: no query string
ConfigStartUrl == [head |-> "https://example.com/listings", query |-> <<>>]

Limits == {<<>>} \cup {<<n>> : n \in 0..MaxLimit}

\* mutant: the comparison off by one
LimitReached_Off == limit # <<>> /\ limit[1] # 0 /\ Len(rows) > limit[1]

\* `limit and len(rows) >= limit`: None and 0 are both falsy
LimitReached == limit # <<>> /\ limit[1] # 0 /\ Len(rows) >= limit[1]

\* mutant: the cap taken inclusively
LoopCond_Inclusive == page_idx <= max_pages

\* `while page_idx < max_pages`
LoopCond == page_idx < max_pages

\* mutant: the parameter dropped for the start index instead of index 0
PageArg_Start(idx) == IF idx = page_start THEN <<>> ELSE <<idx>>

\* `None if page_idx == 0 else page_idx`
PageArg(idx) == IF idx = 0 THEN <<>> ELSE <<idx>>

\* mutant: the break on an empty page forgotten
AfterCollect_NoBreak(S) == "for"

\* mutant: the loop also left on a page that shows nothing new
AfterCollect_NoNew(S) == IF S \subseteq seen THEN "finally" ELSE "for"

\* `if not links: break`: where the loop goes after collect_links returned S
AfterCollect(S) == IF S = {} THEN "finally" ELSE "for"

\* mutant: the membership test forgotten
AlreadySeen_Never(link) == FALSE

\* `if link in seen: continue`
AlreadySeen(link) == link \in seen

\* mutant: the cursor skipping a page
NextPage_Skip(idx) == idx + 2

\* `page_idx += 1`
NextPage(idx) == idx + 1

\* the list_url of the current iteration
ListUrl ==
    IF prog = "template"
    THEN _set_page(start_url, page_param, PageArg(page_idx))
    ELSE _set_or_remove_page(_set_or_remove_page(start_url, <<>>), PageArg(page_idx))

\* listing pages not fixed beforehand: each fetch may show any set of links
AnySite == [fixed |-> FALSE, pages |-> <<>>]

\* what collect_links may return for the listing page of index idx; a fixed
\* site has nothing behind its last page
Listings(idx) ==
    IF ~site.fixed THEN SUBSET URLS
    ELSE IF idx + 1 \in 1..Len(site.pages) THEN {site.pages[idx + 1]}
    ELSE {{}}

\* fetches that raise not fixed beforehand: any listing fetch and any detail
\* scrape may raise
AnyFaults == [fixed |-> FALSE, failing |-> {}, down |-> {}]

\* whether driver.get(list_url) for the listing page of index idx may raise / return
ListingMayRaise(idx) == IF faults.fixed THEN idx \in faults.down ELSE TRUE
ListingMayReturn(idx) == IF faults.fixed THEN idx \notin faults.down ELSE TRUE

\* how a call of the detail scraper may end: with a record ("ok"); by an
\* exception of driver.get or of the wait for <body>, before its time.sleep
\* ("early"); by an exception after its time.sleep ("late")
DetailOutcomes == {"ok", "early", "late"}

\* how the detail scrape of link may end
Outcomes(link) ==
    IF ~faults.fixed THEN DetailOutcomes
    ELSE IF link \in faults.failing THEN DetailOutcomes \ {"ok"}
    ELSE {"ok"}

\* the fetch log after one more fetch
Logged(kind, n) == IF faults.fixed THEN Append(trace, [kind |-> kind, n |-> n]) ELSE trace

\* no run to compare with
NoRef == [set |-> FALSE, started |-> FALSE, trace |-> <<>>, seen |-> {}, records |-> 0,
          list_url |-> [head |-> "", query |-> <<>>], result |-> "running"]

CrawlInit ==
    /\ prog \in {"template", "ice"}
    /\ limit \in Limits
    /\ max_pages \in 0..MaxPages
    /\ page_start \in (IF prog = "template" THEN 0..MaxStart ELSE {0})
    /\ pc = "setup"
    /\ driver = "none"
    /\ page_idx = page_start
    /\ links = <<>>
    /\ li = 0
    /\ seen = {}
    /\ rows = <<>>
    /\ exc = "none"
    /\ result = "running"
    /\ list_url = [head |-> "", query |-> <<>>]
    /\ n_list = 0
    /\ fetched = [u \in URLS |-> 0]
    /\ failed = {}
    /\ listed = [u \in URLS |-> 0]
    /\ found = -1
    /\ trace = <<>>
    /\ gap = "none"

ExtractIdle ==
    /\ x_body = Ans("text", <<>>)
    /\ x_specs = <<>>
    /\ x_out = Ans("idle", <<>>)

\* `data = {}`
EmptyData == [n \in {} |-> <<>>]

\* no detail scrape under way
DetailIdle ==
    /\ d_fields = <<>>
    /\ d_pc = "idle"
    /\ d_wait = "none"
    /\ d_i = 0
    /\ d_data = EmptyData

\* no link collection under way
LinksIdle ==
    /\ k_page = <<>>
    /\ k_out = <<>>

Init ==
    /\ CrawlInit
    /\ site = AnySite
    /\ faults = AnyFaults
    /\ ref = NoRef
    /\ start_url = ConfigStartUrl
    /\ page_param = ConfigPageParam
    /\ ExtractIdle
    /\ DetailIdle
    /\ LinksIdle

\* start URLs that already carry a query: the page parameter itself, another
\* parameter, a repeated one, one with a blank value
StartQueries ==
    { <<>>,
      << <<"page", "7">> >>,
      << <<"q", "x">>, <<"page", "7">>, <<"page", "8">> >>,
      << <<"q", "">>, <<"p", "1">> >> }

StartUrls == {[head |-> ConfigStartUrl.head, query |-> q] : q \in StartQueries}

\* runs over every start URL and parameter name, without an item limit
InitUrl ==
    /\ limit = <<>>
    /\ CrawlInit
    /\ site = AnySite
    /\ faults = AnyFaults
    /\ ref = NoRef
    /\ start_url \in StartUrls
    /\ page_param \in (IF prog = "template" THEN {"page", "p"} ELSE {"page"})
    /\ ExtractIdle
    /\ DetailIdle
    /\ LinksIdle

\* driver = setup_driver(...): outside the try, so a failure leaves scrape_all at once
SetupDriver ==
    /\ pc = "setup"
    /\ \E ok \in BOOLEAN :
        IF ok
        THEN /\ driver' = "open"
             /\ pc' = IF prog = "ice" THEN "start" ELSE "while"
             /\ UNCHANGED result
        ELSE /\ result' = "raised"
             /\ pc' = "done"
             /\ UNCHANGED driver
    /\ UNCHANGED <<cfg, xvars, dvars, kvars, page_idx, links, li, seen, rows, exc, list_url,
                   n_list, fetched, failed, listed, found, trace, gap>>

\* mutant: the ICE loop counting its pages from 1
StartVisit_FromOne ==
    /\ pc = "start"
    /\ \E ok \in BOOLEAN :
        IF ok
        THEN /\ page_idx' = 1
             /\ pc' = "while"
             /\ UNCHANGED exc
        ELSE /\ exc' = "start"
             /\ pc' = "finally"
             /\ UNCHANGED page_idx
    /\ UNCHANGED <<cfg, xvars, dvars, kvars, driver, links, li, seen, rows, result, list_url,
                   n_list, fetched, failed, listed, found, trace, gap>>

\* ICE only: drv.get(START_URL), wait for body, click_apply, base = ...; page_idx = 0
StartVisit ==
    /\ pc = "start"
    /\ \E ok \in BOOLEAN :
        IF ok
        THEN /\ page_idx' = 0
             /\ pc' = "while"
             /\ UNCHANGED exc
        ELSE /\ exc' = "start"
             /\ pc' = "finally"
             /\ UNCHANGED page_idx
    /\ UNCHANGED <<cfg, xvars, dvars, kvars, driver, links, li, seen, rows, result, list_url,
                   n_list, fetched, failed, listed, found, trace, gap>>

\* the while test
WhileTest ==
    /\ pc = "while"
    /\ pc' = IF LoopCond THEN "listing" ELSE "finally"
    /\ UNCHANGED <<cfg, xvars, dvars, kvars, driver, page_idx, links, li, seen, rows, exc, result,
                   list_url, n_list, fetched, failed, listed, found, trace, gap>>

\* list_url = ...; driver.get(list_url); wait; links = collect_links(...);
\* print Found; `if not links: break`
ListingPage ==
    /\ pc = "listing"
    /\ list_url' = ListUrl
    /\ n_list' = n_list + 1
    /\ trace' = Logged("listing", page_idx)
    /\ \/ \* driver.get raises (navigation error, page-load timeout)
          /\ ListingMayRaise(page_idx)
          /\ exc' = "listing"
          /\ pc' = "finally"
          /\ UNCHANGED <<links, li, listed, found>>
       \/ \E S \in Listings(page_idx) :
          /\ ListingMayReturn(page_idx)
          /\ links' = sorted(S)
          /\ listed' = [u \in URLS |-> IF u \in S THEN listed[u] + 1 ELSE listed[u]]
          /\ found' = Cardinality(S)
          /\ li' = 1
          /\ pc' = AfterCollect(S)
          /\ UNCHANGED exc
    /\ UNCHANGED <<cfg, xvars, dvars, kvars, driver, page_idx, seen, rows, result, fetched, failed, gap>>

\* one turn of `for link in links`, up to the call of the detail scraper
ForLink ==
    /\ pc = "for"
    /\ IF li > Len(links) \/ LimitReached
       THEN /\ pc' = "after"
            /\ UNCHANGED <<li, seen>>
       ELSE IF AlreadySeen(links[li])
       THEN /\ li' = li + 1
            /\ UNCHANGED <<pc, seen>>
       ELSE /\ seen' = seen \cup {links[li]}
            /\ pc' = "detail"
            /\ UNCHANGED li
    /\ UNCHANGED <<cfg, xvars, dvars, kvars, driver, page_idx, links, rows, exc, result, list_url,
                   n_list, fetched, failed, listed, found, trace, gap>>

\* mutant: no except clause, the exception leaves the loop
DetailExcept_Propagate ==
    /\ exc' = "detail"
    /\ pc' = "finally"
    /\ UNCHANGED <<rows, failed, li>>

\* mutant: the row is appended before the call can fail, and the failure
\* reported as well
DetailExcept_KeepRow ==
    /\ failed' = failed \cup {links[li]}
    /\ rows' = Append(rows, links[li])
    /\ li' = li + 1
    /\ pc' = "for"
    /\ UNCHANGED exc

\* `except Exception as e: print [WARN] Error scraping {link}`, then the next link
DetailExcept ==
    /\ failed' = failed \cup {links[li]}
    /\ li' = li + 1
    /\ pc' = "for"
    /\ UNCHANGED <<rows, exc>>

\* row = scrape_detail(...) / extract_facility_page(...); rows.append(row)
\* (ICE: and time.sleep(per_facility_delay)), or the except clause when the call
\* raises.  The delays are taken non-negative, so time.sleep returns.
ScrapeDetail ==
    /\ pc = "detail"
    /\ fetched' = [fetched EXCEPT ![links[li]] = @ + 1]
    /\ trace' = Logged("detail", links[li])
    /\ \E out \in Outcomes(links[li]) :
        /\ gap' = IF out = "early" THEN "due" ELSE "slept"
        /\ IF out = "ok"
           THEN /\ rows' = Append(rows, links[li])
                /\ li' = li + 1
                /\ pc' = "for"
                /\ UNCHANGED <<failed, exc>>
           ELSE DetailExcept
    /\ UNCHANGED <<cfg, xvars, dvars, kvars, driver, page_idx, links, seen, result, list_url,
                   n_list, listed, found>>

\* after the for loop: `if limit and len(rows) >= limit: break`; page_idx += 1;
\* time.sleep(page_delay)
AfterLinks ==
    /\ pc = "after"
    /\ IF LimitReached
       THEN /\ pc' = "finally"
            /\ UNCHANGED page_idx
       ELSE /\ page_idx' = NextPage(page_idx)
            /\ pc' = "while"
    /\ gap' = IF LimitReached \/ gap = "none" THEN gap ELSE "slept"
    /\ UNCHANGED <<cfg, xvars, dvars, kvars, driver, links, li, seen, rows, exc, result, list_url,
                   n_list, fetched, failed, listed, found, trace>>

\* mutant: no finally clause, the driver is quit on the normal path only
Finally_NoQuit ==
    /\ pc = "finally"
    /\ driver' = IF exc = "none" THEN "quit" ELSE driver
    /\ result' = IF exc = "none" THEN "returned" ELSE "raised"
    /\ pc' = "done"
    /\ UNCHANGED <<cfg, xvars, dvars, kvars, page_idx, links, li, seen, rows, exc, list_url,
                   n_list, fetched, failed, listed, found, trace, gap>>

\* finally: driver.quit() (its own failure is swallowed); then return rows,
\* or let the exception in flight go on
Finally ==
    /\ pc = "finally"
    /\ driver' = "quit"
    /\ result' = IF exc = "none" THEN "returned" ELSE "raised"
    /\ pc' = "done"
    /\ UNCHANGED <<cfg, xvars, dvars, kvars, page_idx, links, li, seen, rows, exc, list_url,
                   n_list, fetched, failed, listed, found, trace, gap>>

CrawlNext ==
    \/ SetupDriver
    \/ StartVisit
    \/ WhileTest
    \/ ListingPage
    \/ ForLink
    \/ ScrapeDetail
    \/ AfterLinks
    \/ Finally

Next == CrawlNext

Spec == Init /\ [][Next]_vars

SpecUrl == InitUrl /\ [][Next]_vars

\* sites of the two-page scenario: page 0 lists a and s, page 1 lists b and s
\* (s is the link the pages share), page 2 lists nothing
ScenarioSites ==
    { [fixed |-> TRUE, pages |-> << {t[1], t[3]}, {t[2], t[3]}, {} >>] :
        t \in {u \in URLS \X URLS \X URLS : u[1] # u[2] /\ u[1] # u[3] /\ u[2] # u[3]} }

ScenarioStartUrl == [head |-> "https://ex.com/list", query |-> <<>>]

\* runs over the scenario's sites: start index 0, no item limit
InitScenario ==
    /\ limit = <<>>
    /\ page_start = 0
    /\ CrawlInit
    /\ site \in ScenarioSites
    /\ faults = AnyFaults
    /\ ref = NoRef
    /\ start_url = ScenarioStartUrl
    /\ page_param = ConfigPageParam
    /\ ExtractIdle
    /\ DetailIdle
    /\ LinksIdle

SpecScenario == InitScenario /\ [][Next]_vars

\* one call of _extract_with_specs on every page and strategy list; no crawl
InitExtract ==
    /\ prog = "template"
    /\ limit = <<>>
    /\ max_pages = 0
    /\ page_start = 0
    /\ CrawlInit
    /\ site = AnySite
    /\ faults = AnyFaults
    /\ ref = NoRef
    /\ start_url = ConfigStartUrl
    /\ page_param = ConfigPageParam
    /\ x_body \in Bodies
    /\ x_specs \in SpecLists
    /\ x_out = Ans("idle", <<>>)
    /\ DetailIdle
    /\ LinksIdle

Extract ==
    /\ x_out.k = "idle"
    /\ x_out' = _extract_with_specs(x_body, x_specs)
    /\ UNCHANGED <<cfg, cvars, dvars, kvars, x_body, x_specs>>

NextExtract == Extract

SpecExtract == InitExtract /\ [][NextExtract]_vars

\* ------------------------------------------------------------- the two loops on one site
\* sites of two listing pages (nothing behind them), any links on each
PairSites == {[fixed |-> TRUE, pages |-> p] : p \in (SUBSET URLS) \X (SUBSET URLS)}

\* the detail page of at most one URL raises, the fetch of at most one listing
\* page raises
PairFaults ==
    { [fixed |-> TRUE, failing |-> F, down |-> D] :
        F \in {{}} \cup {{u} : u \in URLS}, D \in {{}, {0}, {1}} }

\* the template's scrape_all, with start index 0, on every such site under
\* every limit and page cap
InitPair ==
    /\ prog = "template"
    /\ page_start = 0
    /\ CrawlInit
    /\ site \in PairSites
    /\ faults \in PairFaults
    /\ ref = NoRef
    /\ start_url = ConfigStartUrl
    /\ page_param = ConfigPageParam
    /\ ExtractIdle
    /\ DetailIdle
    /\ LinksIdle

\* the template's run is over: what it did is kept, and the ICE scrape_all is
\* called with the same limit and max_pages on the same site
SecondRun ==
    /\ pc = "done"
    /\ prog = "template"
    /\ faults.fixed
    /\ ~ref.set
    /\ ref' = [set |-> TRUE, started |-> driver # "none", trace |-> trace, seen |-> seen,
               records |-> Len(rows), list_url |-> list_url, result |-> result]
    /\ prog' = "ice"
    /\ pc' = "setup"
    /\ driver' = "none"
    /\ page_idx' = 0
    /\ links' = <<>>
    /\ li' = 0
    /\ seen' = {}
    /\ rows' = <<>>
    /\ exc' = "none"
    /\ result' = "running"
    /\ list_url' = [head |-> "", query |-> <<>>]
    /\ n_list' = 0
    /\ fetched' = [u \in URLS |-> 0]
    /\ failed' = {}
    /\ listed' = [u \in URLS |-> 0]
    /\ found' = -1
    /\ trace' = <<>>
    /\ gap' = "none"
    /\ UNCHANGED <<limit, max_pages, page_start, start_url, page_param, site, faults,
                   xvars, dvars, kvars>>

NextPair ==
    \/ CrawlNext
    \/ SecondRun

SpecPair == InitPair /\ [][NextPair]_vars

\* ------------------------------------------------------------- detail scraper
\* CONFIG["FIELDS"] keys
FieldNames == {"Title", "Address", "Phone", "Email"}

\* the fields of FacilityRow, none of them configurable
FacilityFieldNames ==
    <<"facility_name", "field_office_name", "facility_address", "state",
      "facility_phone", "facility_email", "field_office_phone">>

\* strategy lists of a configured field, with the page's answers: none at all,
\* a padded text, an element missing then a pattern, a query that fails, an
\* attribute that is not there
DetailSpecLists ==
    { <<>>,
      << [kind |-> "css", ans |-> Ans("text", <<" ", "a", "\n">>), pat |-> <<>>] >>,
      << [kind |-> "css", ans |-> Ans("missing", <<>>), pat |-> <<>>],
         [kind |-> "regex", ans |-> Ans("none", <<>>), pat |-> <<"a">>] >>,
      << [kind |-> "css", ans |-> Ans("error", <<>>), pat |-> <<>>] >>,
      << [kind |-> "css_attr", ans |-> Ans("null", <<>>), pat |-> <<>>] >> }

\* a fields dict: distinct names, each with its strategy list
FieldConfigs ==
    UNION { { f \in [1..n -> [name : FieldNames, specs : DetailSpecLists]] :
                \A i, j \in 1..n : i # j => f[i].name # f[j].name }
            : n \in 0..MaxFields }

FacilityFields ==
    [i \in 1..Len(FacilityFieldNames) |-> [name |-> FacilityFieldNames[i], specs |-> <<>>]]

ConfiguredNames == {d_fields[i].name : i \in 1..Len(d_fields)}

\* mutant: a field that came out empty is left out of the record
SetField_SkipEmpty(data, name, val) ==
    IF val = <<>> THEN data
    ELSE [n \in DOMAIN data \cup {name} |-> IF n = name THEN val ELSE data[n]]

\* `data[field_name] = ...`
SetField(data, name, val) ==
    [n \in DOMAIN data \cup {name} |-> IF n = name THEN val ELSE data[n]]

\* one detail page, every field configuration, every body
InitDetail ==
    /\ prog \in {"template", "ice"}
    /\ limit = <<>>
    /\ max_pages = 0
    /\ page_start = 0
    /\ CrawlInit
    /\ site = AnySite
    /\ faults = AnyFaults
    /\ ref = NoRef
    /\ start_url = ConfigStartUrl
    /\ page_param = ConfigPageParam
    /\ x_body \in Bodies
    /\ x_specs = <<>>
    /\ x_out = Ans("idle", <<>>)
    /\ d_fields \in (IF prog = "template" THEN FieldConfigs ELSE {FacilityFields})
    /\ d_pc = "get"
    /\ d_wait = "none"
    /\ d_i = 0
    /\ d_data = EmptyData
    /\ LinksIdle

\* driver.get(url): returns, or raises (navigation error, page-load timeout)
DetailGet ==
    /\ d_pc = "get"
    /\ \E ok \in BOOLEAN : d_pc' = IF ok THEN "wait" ELSE "raised"
    /\ UNCHANGED <<cfg, cvars, xvars, kvars, d_fields, d_wait, d_i, d_data>>

\* WebDriverWait(driver, 30).until(presence of body): no try around it, so the
\* TimeoutException leaves the detail scraper
DetailWait ==
    /\ d_pc = "wait"
    /\ \E ok \in BOOLEAN :
        /\ d_wait' = IF ok THEN "ok" ELSE "timeout"
        /\ d_pc' = IF ok THEN "sleep" ELSE "raised"
    /\ UNCHANGED <<cfg, cvars, xvars, kvars, d_fields, d_i, d_data>>

\* time.sleep(item_delay); data = {}   /   time.sleep(0.6)
DetailSleep ==
    /\ d_pc = "sleep"
    /\ d_pc' = "fields"
    /\ d_i' = 1
    /\ d_data' = EmptyData
    /\ UNCHANGED <<cfg, cvars, xvars, kvars, d_fields, d_wait>>

\* template: one turn of the loop over fields.items(), then `return Row(data=data)`
DetailField ==
    /\ d_pc = "fields"
    /\ prog = "template"
    /\ IF d_i > Len(d_fields)
       THEN /\ d_pc' = "returned"
            /\ UNCHANGED <<d_i, d_data>>
       ELSE LET out == _extract_with_specs(x_body, d_fields[d_i].specs)
            IN IF out.k = "raise"
               THEN /\ d_pc' = "raised"
                    /\ UNCHANGED <<d_i, d_data>>
               ELSE /\ d_data' = SetField(d_data, d_fields[d_i].name, out.v)
                    /\ d_i' = d_i + 1
                    /\ UNCHANGED d_pc
    /\ UNCHANGED <<cfg, cvars, xvars, kvars, d_fields, d_wait>>

\* ICE: body_text = driver.find_element(...).text (not guarded), the seven
\* values (each "" unless found), `return FacilityRow(...)`
FacilityPage ==
    /\ d_pc = "fields"
    /\ prog = "ice"
    /\ IF x_body.k = "error"
       THEN /\ d_pc' = "raised"
            /\ UNCHANGED <<d_i, d_data>>
       ELSE \E F \in SUBSET ConfiguredNames :
            /\ d_data' = [n \in ConfiguredNames |-> IF n \in F THEN <<"a">> ELSE <<>>]
            /\ d_i' = Len(d_fields) + 1
            /\ d_pc' = "returned"
    /\ UNCHANGED <<cfg, cvars, xvars, kvars, d_fields, d_wait>>

NextDetail ==
    \/ DetailGet
    \/ DetailWait
    \/ DetailSleep
    \/ DetailField
    \/ FacilityPage

SpecDetail == InitDetail /\ [][NextDetail]_vars

\* ------------------------------------------------------------- link collector
\* A URL string is a list of characters; "h:" stands for the scheme and host.
Code(c) ==
    CASE c = "/" -> 47 [] c = ":" -> 58 [] c = "?" -> 63
      [] c = "a" -> 97 [] c = "b" -> 98 [] c = "d" -> 100 [] c = "h" -> 104

RECURSIVE StrLess(_, _)
\* str.__lt__: code point by code point, a proper prefix first
StrLess(s, t) ==
    IF t = <<>> THEN FALSE
    ELSE IF s = <<>> THEN TRUE
    ELSE IF Head(s) = Head(t) THEN StrLess(Tail(s), Tail(t))
    ELSE Code(Head(s)) < Code(Head(t))

\* mutant: the order of the result reversed
StrLeq_Reverse(s, t) == s = t \/ StrLess(t, s)

StrLeq(s, t) == s = t \/ StrLess(s, t)

RECURSIVE sorted_links(_)
\* sorted(links) on a set of strings
sorted_links(S) ==
    IF S = {} THEN <<>>
    ELSE LET m == CHOOSE x \in S : \A y \in S : StrLeq(x, y)
         IN <<m>> \o sorted_links(S \ {m})

\* f"{parts.scheme}://{parts.netloc}"
BaseForLinks == <<"h", ":">>

HasScheme(href) == Len(href) >= 2 /\ SubSeq(href, 1, 2) = BaseForLinks

\* urljoin(base, href) for a base without a path: an absolute href is kept, a
\* path or a query is put behind the host, a bare name goes under the root
urljoin(base, href) ==
    IF href = <<>> THEN base
    ELSE IF HasScheme(href) THEN href
    ELSE IF Head(href) \in {"/", "?"} THEN base \o href
    ELSE base \o <<"/">> \o href

\* urljoin does not raise on these strings, so the except branch is not taken
_ensure_absolute(href, base_url) == urljoin(base_url, href)

\* href.split("?")[0]
BeforeQuery(href) ==
    IF \E i \in 1..Len(href) : href[i] = "?"
    THEN SubSeq(href, 1, (CHOOSE i \in 1..Len(href) :
                              href[i] = "?" /\ \A j \in 1..(i - 1) : href[j] # "?") - 1)
    ELSE href

\* `sub in s`
Contains(sub, s) ==
    \E i \in 1..(Len(s) - Len(sub) + 1) : SubSeq(s, i, i + Len(sub) - 1) = sub

\* "/detention", shortened to its first two characters
DetentionMark == <<"/", "d">>

\* what a.get_attribute("href") answers: None, "", or a string
Hrefs ==
    {Ans("null", <<>>), Ans("text", <<>>)}
    \cup {Ans("text", h) : h \in { <<"/", "a">>, <<"a">>, <<"h", ":", "/", "a">>,
                                   <<"h", ":", "/", "d">>, <<"h", ":", "/", "d", "?", "a">> }}

\* CONFIG["LIST_LINK_SELECTORS"] has two selectors, the ICE patterns list three
Selectors == IF prog = "template" THEN 1..2 ELSE 1..3

\* a.get_attribute("href")
get_href(a) == IF a.href.k = "null" THEN <<>> ELSE a.href.v

\* the anchors reached by `for sel in selectors: for a in driver.find_elements(...)`
Matched(page) == {i \in 1..Len(page) : page[i].sels # {}}

\* collect_links(driver, base_url, selectors)
collect_links(page, base_url) ==
    sorted_links({ _ensure_absolute(get_href(page[i]), base_url) :
                     i \in {j \in Matched(page) : get_href(page[j]) # <<>>} })

\* collect_facility_links_on_current_page(driver)
collect_facility_links_on_current_page(page) ==
    sorted_links({ BeforeQuery(get_href(page[i])) :
                     i \in {j \in Matched(page) :
                              /\ BeforeQuery(get_href(page[j])) # <<>>
                              /\ Contains(DetentionMark, BeforeQuery(get_href(page[j])))} })

\* every listing page of up to MaxAnchors anchors; each anchor has its href and
\* the selectors that match it
InitLinks ==
    /\ prog \in {"template", "ice"}
    /\ limit = <<>>
    /\ max_pages = 0
    /\ page_start = 0
    /\ CrawlInit
    /\ site = AnySite
    /\ faults = AnyFaults
    /\ ref = NoRef
    /\ start_url = ConfigStartUrl
    /\ page_param = ConfigPageParam
    /\ ExtractIdle
    /\ DetailIdle
    /\ k_page \in UNION {[1..n -> [href : Hrefs, sels : SUBSET Selectors]] : n \in 0..MaxAnchors}
    /\ k_out = <<>>

\* one call of the link collector on the page as it is; two calls are made
CollectLinks ==
    /\ Len(k_out) < 2
    /\ k_out' = Append(k_out, IF prog = "template"
                              THEN collect_links(k_page, BaseForLinks)
                              ELSE collect_facility_links_on_current_page(k_page))
    /\ UNCHANGED <<cfg, cvars, xvars, dvars, k_page>>

NextLinks == CollectLinks

SpecLinks == InitLinks /\ [][NextLinks]_vars

\* ------------------------------------------------------------- crawl properties
Done == pc = "done"
\* page_idx has been assigned (`page_idx = page_start` / `page_idx = 0`)
CursorSet == driver # "none" /\ pc # "start" /\ exc # "start"
Returned == Done /\ result = "returned"

\* the paginator's terminal states, read off the loop's locals and its last
\* "Found N links." line
Exhausted == pc \in {"finally", "done"} /\ exc = "none" /\ found = 0
Capped == pc \in {"finally", "done"} /\ exc = "none" /\ driver # "none"
          /\ found # 0 /\ ~LoopCond

TotalFetched == Cardinality({u \in URLS : fetched[u] >= 1})
Discovered == {u \in URLS : listed[u] >= 1}

\* C1: the detail scraper is invoked at most once per URL, and only for a URL
\* that has just been put into the visited set: a URL listed on several pages,
\* or whose first attempt failed, is not fetched again.
C1_AtMostOncePerUrl ==
    /\ \A u \in URLS : fetched[u] <= 1
    /\ \A u \in URLS : fetched[u] = 1 => u \in seen
    /\ pc = "detail" => links[li] \in seen /\ fetched[links[li]] = 0

\* a finished run in which a URL whose scrape failed was listed again on a later
\* page and a URL whose scrape succeeded was listed twice too, each fetched once
C1_Witness ==
    /\ Done
    /\ \E u \in failed : listed[u] >= 2 /\ fetched[u] = 1
    /\ \E u \in Range(rows) : listed[u] >= 2 /\ fetched[u] = 1

\* rows holds exactly the URLs scraped without raising; a run in which no
\* renderer call outside the per-item try raised returns
C2_Rows ==
    /\ \A u \in failed : u \notin Range(rows)
    /\ \A u \in URLS : (fetched[u] >= 1 /\ u \notin failed) => u \in Range(rows)
    /\ (Done /\ driver # "none" /\ exc \notin {"start", "listing"}) => result = "returned"

\* the step that reports a failed scrape
C2_FailStep ==
    (failed' # failed) =>
        /\ rows' = rows
        /\ page_idx' = page_idx
        /\ seen' = seen
        /\ pc' = "for"
        /\ exc' = "none"

\* C2: failure isolation.  A detail scrape that raises leaves rows and page_idx
\* as they were and the loop goes on with the next link; no failed URL ever has
\* a row, every URL scraped without raising has one, and a run in which only
\* detail scrapes raised (no renderer call outside the per-item try did) returns
\* its rows.
C2_FailureIsolation == []C2_Rows /\ [][C2_FailStep]_vars

\* X failed, Y was found after X on the same page and Z on a later page, both
\* scraped: the run returned exactly Y and Z
C2_Witness ==
    /\ Returned
    /\ failed = {1}
    /\ rows = <<2, 3>>
    /\ n_list >= 2
    /\ listed[3] = 1 /\ listed[1] = 1 /\ listed[2] = 1
    /\ found = 1

Max(a, b) == IF a >= b THEN a ELSE b

C4_HardCap ==
    limit # <<>> =>
        /\ Len(rows) <= limit[1]
        /\ (pc = "detail" => Len(rows) < limit[1])

\* a Found 0 line is followed by the end of the loop
C5_ExhaustedState == found = 0 => Exhausted

\* nothing is fetched once a listing page had no links
C5_NoFetchAfter == found = 0 => (n_list' = n_list /\ fetched' = fetched /\ found' = 0)

\* C5: the first listing page with zero links ends the traversal (Exhausted):
\* the loop is left at once, and from then on no listing page and no detail
\* page is fetched.
C5_Exhausted == []C5_ExhaustedState /\ [][C5_NoFetchAfter]_vars

\* a run that scraped something, then met an empty page and ended
C5_Witness ==
    /\ Done
    /\ found = 0
    /\ n_list >= 2
    /\ rows # <<>>

\* C6: a run that neither met an empty page nor was stopped by the limit ends
\* Capped: the cursor stands at max_pages (or at a start index beyond it), the
\* pages fetched are exactly those from the start index below max_pages, so
\* page max_pages was not fetched; and Exhausted differs from it both in the
\* last Found line and in the cursor, which is still below max_pages.
C6_Capped ==
    /\ (Done /\ driver # "none" /\ exc = "none" /\ found # 0 /\ ~LimitReached)
          => (/\ Capped
              /\ page_idx = Max(page_start, max_pages)
              /\ n_list = page_idx - page_start)
    /\ Exhausted => (LoopCond /\ ~Capped)

\* every page up to the cap had links, and the run ended at the cap
C6_Witness ==
    /\ Returned
    /\ Capped
    /\ max_pages >= 2
    /\ n_list = max_pages
    /\ limit = <<>>
    /\ Len(rows) >= 2

\* C7 as stated: once set, page_idx never exceeds max_pages.
C7_Original == CursorSet => page_idx <= max_pages

\* the cursor's upper bound
C7_Bound ==
    /\ CursorSet => page_idx <= Max(max_pages, page_start)
    /\ pc = "listing" => page_idx < max_pages

\* C7 amended: page_idx never decreases and never exceeds the larger of
\* max_pages and the start index; a listing page is only fetched for an index
\* below max_pages.
C7_Cursor == []C7_Bound /\ [][page_idx' >= page_idx]_vars

\* the cursor walked from a non-zero start index up to the cap
C7_Witness ==
    /\ Done
    /\ page_start = 1
    /\ max_pages = 3
    /\ page_idx = 3

\* the page parameter is absent from url
PageParamAbsent(url) == ParamValues(url, page_param) = <<>>

\* the page parameter occurs once in url, with the decimal text of k as value
PageParamIs(url, k) == ParamValues(url, page_param) = <<Str(k)>>

\* a listing fetch, judged by the start index
C8_OriginalStep ==
    (n_list' = n_list + 1) =>
        IF page_idx = page_start
        THEN PageParamAbsent(list_url')
        ELSE PageParamIs(list_url', page_idx)

\* C8 as stated: the URL fetched for the start index has no page parameter,
\* the URL fetched for any later index k has it set to k.
C8_Original == [][C8_OriginalStep]_vars

\* a listing fetch, judged by index 0
C8_Step ==
    (n_list' = n_list + 1) =>
        /\ IF page_idx = 0
           THEN PageParamAbsent(list_url')
           ELSE PageParamIs(list_url', page_idx)
        /\ list_url'.head = start_url.head

\* C8 amended: the URL fetched for index 0 has no page parameter; the URL
\* fetched for any other index k, a non-zero start index included, has the
\* parameter exactly once, set to the decimal text of k; the rest of the
\* URL before the query is the start URL's.
C8_PageUrl == [][C8_Step]_vars

\* a run started at index 1 on a URL that already had page=7&page=8: the first
\* URL fetched carries page=1 once, beside the other parameter
C8_Witness ==
    /\ n_list = 1
    /\ page_start = 1
    /\ page_idx = 1
    /\ page_param = "page"
    /\ start_url.query = << <<"q", "x">>, <<"page", "7">>, <<"page", "8">> >>
    /\ list_url.query = << <<"q", "x">>, <<"page", "1">> >>

\* ------------------------------------------------------------- extractor properties
\* the normalized value strategy st yields on a page with visible text `text`,
\* <<>> when it yields none (no element, no attribute, no match, a failed query)
StrategyValue(st, text) ==
    CASE st.kind = "regex" ->
            LET m == re_search(st.pat, text)
            IN IF m.k = "match" THEN _normalize_space(m.v) ELSE <<>>
      [] OTHER -> IF st.ans.k = "text" THEN _normalize_space(st.ans.v) ELSE <<>>

\* the strategies of the list that yield a non-empty normalized value
Yielding == {i \in 1..Len(x_specs) : StrategyValue(x_specs[i], BodyText(x_body)) # <<>>}

\* the value of the first of them in declared order, <<>> when there is none
FirstNonEmpty ==
    IF Yielding = {} THEN <<>>
    ELSE StrategyValue(x_specs[CHOOSE i \in Yielding : \A j \in Yielding : i <= j],
                       BodyText(x_body))

\* C9 as stated: what the extractor returns is the value of the first strategy
\* in declared order that yields a non-empty normalized result, whatever the
\* kind of the strategies before it that yielded nothing.
C9_FirstWins == x_out.k = "return" => x_out.v = FirstNonEmpty

\* C10 as stated: the extractor never raises; it returns a string, and the
\* empty string exactly when no strategy yields a non-empty value.
C10_NeverRaises ==
    x_out.k # "idle" =>
        /\ x_out.k = "return"
        /\ (x_out.v = <<>>) <=> (Yielding = {})

\* ------------------------------------------------------------- detail scraper properties
Chars == {" ", "\n", "\t", "a", "b"}

\* C11: every record the detail scraper returns has exactly the configured field
\* names as keys, and each key holds a string (maybe the empty one), never null.
C11_RecordShape ==
    d_pc = "returned" =>
        /\ DOMAIN d_data = ConfiguredNames
        /\ \A n \in DOMAIN d_data : d_data[n] \in Seq(Chars)

\* a template record with two fields, one of them empty
C11_Witness ==
    /\ d_pc = "returned"
    /\ prog = "template"
    /\ Len(d_fields) = 2
    /\ \E n, m \in DOMAIN d_data : d_data[n] = <<>> /\ d_data[m] # <<>>

\* C16: a readiness wait that times out on a detail page does not drop the
\* page: the detail scraper goes on to extract the fields and returns a record.
C16_TimeoutTolerated == d_wait = "timeout" => d_pc # "raised"

\* ------------------------------------------------------------- link collector properties
\* s comes before t in lexical order: they agree up to some position, where s
\* ends or has the smaller character
Precedes(s, t) ==
    \E k \in 0..Len(s) :
        /\ k <= Len(t)
        /\ SubSeq(s, 1, k) = SubSeq(t, 1, k)
        /\ \/ k = Len(s) /\ k < Len(t)
           \/ k < Len(s) /\ k < Len(t) /\ Code(s[k + 1]) < Code(t[k + 1])

\* the URL the collector keeps for an anchor it reaches
Collected(a) ==
    IF prog = "template" THEN urljoin(BaseForLinks, get_href(a)) ELSE BeforeQuery(get_href(a))

\* C12: the link collector returns every collected URL exactly once, however many
\* selectors match its anchor; an anchor without href, or with an empty one, adds
\* nothing; the result is in lexical order; a second call on the unchanged page
\* returns the same list.
C12_CollectLinks ==
    \A c \in 1..Len(k_out) :
        LET out == k_out[c]
        IN /\ \A i, j \in 1..Len(out) : i < j => Precedes(out[i], out[j])
           /\ \A i \in 1..Len(out) :
                \E n \in Matched(k_page) :
                    get_href(k_page[n]) # <<>> /\ out[i] = Collected(k_page[n])
           /\ \A n \in Matched(k_page) :
                (/\ get_href(k_page[n]) # <<>>
                 /\ prog = "ice" => Contains(DetentionMark, Collected(k_page[n])))
                => \E i \in 1..Len(out) : out[i] = Collected(k_page[n])
           /\ prog = "template" => \A i \in 1..Len(out) : HasScheme(out[i])
           /\ out = k_out[1]

\* two calls made on a page whose first anchor is matched by two selectors, with
\* a second anchor that has no href or an empty one: one URL comes back
C12_Witness ==
    /\ Len(k_out) = 2
    /\ Len(k_page) = 2
    /\ Cardinality(k_page[1].sels) = 2
    /\ get_href(k_page[1]) # <<>>
    /\ k_page[2].sels # {}
    /\ get_href(k_page[2]) = <<>>
    /\ Len(k_out[2]) = 1

\* ------------------------------------------------------------- release, output, termination
\* C13: once setup_driver has returned the session, scrape_all leaves only with
\* driver.quit() attempted, on the normal paths (empty page, page cap, item limit)
\* and when an exception escapes the loop; every fetch is made on the open
\* session, and none after the release.
C13_Release ==
    /\ [](Done /\ driver # "none" => driver = "quit")
    /\ [](pc \in {"start", "while", "listing", "for", "detail", "after", "finally"}
            => driver = "open")
    /\ [][n_list' # n_list \/ fetched' # fetched => driver = "open" /\ driver' = "open"]_vars
    /\ [][driver = "quit" => driver' = "quit" /\ n_list' = n_list /\ fetched' = fetched]_vars

\* a run that an exception left after two records, with the session released
C13_Witness ==
    /\ Done
    /\ result = "raised"
    /\ exc = "listing"
    /\ Len(rows) = 2
    /\ driver = "quit"

\* C14: on a site whose pages 0 and 1 list two links each, one of them on both
\* pages, and whose page 2 lists nothing, a run from https://ex.com/list with
\* start index 0, no item limit, a page cap above 2 and no failure ends with
\* three visited URLs, on the empty page of index 2 (the third listing fetch, of
\* ...?page=2), and returns three records.
C14_Scenario ==
    (Done /\ driver # "none" /\ exc = "none" /\ failed = {} /\ max_pages > 2) =>
        /\ Cardinality(seen) = 3
        /\ Exhausted
        /\ page_idx = 2
        /\ n_list = 3
        /\ list_url = [head |-> "https://ex.com/list", query |-> << <<"page", "2">> >>]
        /\ result = "returned"
        /\ Len(rows) = 3
        /\ Range(rows) = seen

\* such a run of the template, ended
C14_Witness ==
    /\ Done
    /\ prog = "template"
    /\ site.fixed
    /\ result = "returned"
    /\ failed = {}
    /\ max_pages > 2
    /\ Len(rows) = 3

\* main: rows = scrape_all(...), then save_to_excel(rows, ...), with no handler
\* around the call: the output is written only when scrape_all returns
Saved == Done /\ result = "returned"

\* C15: once the session has started, whatever fails during the crawl (a
\* listing fetch that raises included), the records gathered so far are not
\* lost: the run ends by handing them to the output.
C15_RecordsKept == (Done /\ driver # "none" /\ rows # <<>>) => Saved

\* C17: a run ends exactly when the paginator is Exhausted, or Capped, or the
\* item limit is reached, and in no other state.
C17_EndStates == (Done /\ driver # "none") => (Exhausted \/ Capped \/ LimitReached)

\* C18: a detail page is never fetched while the delay after the previous detail
\* fetch is still due, whether that fetch gave a record or failed.
C18_Politeness == [][fetched' # fetched => gap # "due"]_vars

StaleLinks == links # <<>> /\ \A u \in Range(links) : listed[u] >= 2

\* the loop is working on such a page
StalePage == pc \in {"for", "detail", "after"} /\ StaleLinks

\* C20: a listing page with at least one link, all of them visited already, does
\* not end the traversal: the loop goes into its links, fetches no detail page
\* for it, the paginator is not Exhausted, and the cursor moves to the next
\* index; a run whose last page was such a page has gone up to the page cap.
C20_StalePage ==
    /\ [][(n_list' # n_list /\ exc' = "none" /\ links' # <<>> /\ Range(links') \subseteq seen)
            => pc' = "for" /\ found' > 0 /\ StaleLinks']_vars
    /\ [](StalePage => pc # "detail" /\ Range(links) \subseteq seen /\ ~LimitReached)
    /\ [][StalePage => fetched' = fetched /\ seen' = seen /\ rows' = rows]_vars
    /\ [][StalePage /\ pc = "after" => page_idx' = page_idx + 1 /\ pc' = "while"]_vars
    /\ []((Done /\ exc = "none" /\ StaleLinks)
            => Capped /\ ~Exhausted /\ page_idx = max_pages)

\* a site that shows the same two links on each of its pages, crawled from index
\* 0 up to the cap of 3 with two detail fetches in all
C20_Witness ==
    /\ Done
    /\ Capped
    /\ page_start = 0
    /\ max_pages = 3
    /\ n_list = 3
    /\ Len(links) = 2
    /\ \A u \in Range(links) : listed[u] = 3
    /\ TotalFetched = 2

\* ------------------------------------------------------------- equivalence of the loops
\* both runs are over, each with its session set up and the ICE start visit made
BothRan == Done /\ prog = "ice" /\ ref.set /\ ref.started /\ driver # "none" /\ exc # "start"

====
